---------------------------- MODULE Spec2Model ----------------------------
(***************************************************************************)
(* The SMA crossover strategy engine of forex-algo-trader:                 *)
(*   src/src/strategies/base_strategy.py  (BaseStrategy, TechnicalIndicators)*)
(*   src/src/strategies/sma_crossover.py  (SMACrossoverStrategy)            *)
(*                                                                         *)
(* Conventions.                                                            *)
(*  - A pandas DataFrame is a record: `columns` is the set of its column   *)
(*    names, `n` its number of rows, and each column it can hold is a      *)
(*    function over the row index 0..n-1 (the index after reset_index).    *)
(*    A column that is not in `columns` holds the empty function.          *)
(*  - A float is an exact fraction [nan, num, den] with den > 0; NaN is    *)
(*    the record with nan = TRUE, and every comparison with NaN is FALSE   *)
(*    as in IEEE-754 / pandas.  Prices are positive integers, so sums,     *)
(*    means and differences are exact; binary rounding is not modelled.    *)
(*  - Python's None is the record NoneFrame for a DataFrame attribute, the *)
(*    string "None" for `position`, and NoValue for entry_price,           *)
(*    entry_time and entry_idx.                                            *)
(*  - open/high/low/volume are never read by the strategy: a table carries *)
(*    their names in `columns` and no values.                              *)
(***************************************************************************)
EXTENDS Integers, Sequences, FiniteSets, TLC

(***************************************************************************)
(* Bounds of the model.                                                    *)
(***************************************************************************)
\* longest candle sequence of the per-step specification SpecPipeline
MaxLen == 6
\* closes are drawn from 1..MaxPrice
MaxPrice == 3
\* short_period and long_period of SpecPipeline are drawn from 1..MaxPeriod
MaxPeriod == 2
\* the periods handed to the constructor in Spec are drawn from 1..MaxCtorPeriod
MaxCtorPeriod == 3
\* min_candles_after_cross is drawn from 0..MaxLag (from 1..MaxLag in SpecPipeline)
MaxLag == 2
\* longest candle table handed to load_data in the lifecycle specification Spec
MaxLoadLen == 4
\* closes of the tables handed to load_data are drawn from 1..MaxLoadPrice
MaxLoadPrice == 2
\* the closes of the rising series of SpecTrend are drawn from 1..MaxTrendPrice
MaxTrendPrice == 6
\* SpecRamp: at most MaxFlat leading closes of 1, then 2, 3, ... up to at most MaxTop
MaxFlat == 19
MaxTop == 40
\* longest table of SpecLoad, whose rows come in every order
MaxPermLen == 3
\* SpecLedger: tables of up to MaxTradeLen candles with closes in 1..MaxTradePrice
MaxTradeLen == 7
MaxTradePrice == 4

(***************************************************************************)
(* Program constants.                                                      *)
(***************************************************************************)
\* pips per price unit: (close - entry_price) * 10000
PipScale == 10000
\* percentages: * 100
Percent == 100

Prices == 1..MaxPrice
LoadPrices == 1..MaxLoadPrice
Periods == 1..MaxPeriod
CtorPeriods == 1..MaxCtorPeriod
Lags == 0..MaxLag

(***************************************************************************)
(* Floats as exact fractions, with NaN.                                    *)
(***************************************************************************)
NaN == [nan |-> TRUE, num |-> 0, den |-> 1]

Frac(a, b) == [nan |-> FALSE, num |-> a, den |-> b]

FSub(x, y) ==
  IF x.nan \/ y.nan THEN NaN
  ELSE Frac(x.num * y.den - y.num * x.den, x.den * y.den)

FAdd(x, y) ==
  IF x.nan \/ y.nan THEN NaN
  ELSE Frac(x.num * y.den + y.num * x.den, x.den * y.den)

FAbs(x) == IF x.nan THEN NaN ELSE Frac(IF x.num < 0 THEN -x.num ELSE x.num, x.den)

\* x / c * m for a positive integer c and an integer m
FDivMul(x, c, m) == IF x.nan THEN NaN ELSE Frac(x.num * m, x.den * c)

FGt(x, y) == ~x.nan /\ ~y.nan /\ x.num * y.den > y.num * x.den
FLt(x, y) == ~x.nan /\ ~y.nan /\ x.num * y.den < y.num * x.den
FGe(x, y) == ~x.nan /\ ~y.nan /\ x.num * y.den >= y.num * x.den
FLe(x, y) == ~x.nan /\ ~y.nan /\ x.num * y.den <= y.num * x.den

FZero == Frac(0, 1)

(***************************************************************************)
(* DataFrames.                                                             *)
(***************************************************************************)
NoColumn == [i \in {} |-> 0]

RequiredColumns == {"time", "open", "high", "low", "close", "volume"}

NoneFrame ==
  [kind |-> "None", columns |-> {}, n |-> 0,
   time |-> NoColumn, close |-> NoColumn,
   sma_short |-> NoColumn, sma_long |-> NoColumn, sma_diff |-> NoColumn,
   crossover |-> NoColumn, signal |-> NoColumn, signal_strength |-> NoColumn]

\* pd.DataFrame(): no rows, no columns
EmptyFrame == [NoneFrame EXCEPT !.kind = "DataFrame"]

Index(df) == 0 .. (df.n - 1)

\* df[name] = values: assignment of a whole column
SetColumn(df, name, values) ==
  [[df EXCEPT !.columns = @ \cup {name}] EXCEPT ![name] = values]

\* Series.shift(1): the value of the previous row, NaN in row 0
Shift1(col) == [i \in DOMAIN col |-> IF (i - 1) \in DOMAIN col THEN col[i - 1] ELSE NaN]

(***************************************************************************)
(* TechnicalIndicators.sma: data.rolling(window=period,                    *)
(* min_periods=period).mean()                                              *)
(***************************************************************************)
RECURSIVE SumRange(_, _, _)
SumRange(col, lo, hi) == IF lo > hi THEN 0 ELSE col[hi] + SumRange(col, lo, hi - 1)

\* mutant: min_periods=1, the mean of the closes there are while the window fills
smaPartial(col, period) ==
  [i \in DOMAIN col |->
     IF i + 1 < period THEN Frac(SumRange(col, 0, i), i + 1)
     ELSE Frac(SumRange(col, i - period + 1, i), period)]

\* mutant: the window keeps one row more, rows i-period .. i
smaWideWindow(col, period) ==
  [i \in DOMAIN col |->
     IF i + 1 < period THEN NaN
     ELSE Frac(SumRange(col, IF i < period THEN 0 ELSE i - period, i), period)]

sma(col, period) ==
  [i \in DOMAIN col |->
     IF i + 1 < period THEN NaN
     ELSE Frac(SumRange(col, i - period + 1, i), period)]

(***************************************************************************)
(* SMACrossoverStrategy.calculate_indicators                               *)
(***************************************************************************)
\* the boolean mask of the golden cross and of the death cross
\* mutant: the previous difference tested with "not > 0", which NaN passes
GoldenMaskNotAbove(diff) ==
  LET prev == Shift1(diff) IN
  [i \in DOMAIN diff |-> FGt(diff[i], FZero) /\ ~FGt(prev[i], FZero)]

\* mutant: the previous difference must be below zero, a touch does not count
GoldenMaskStrict(diff) ==
  LET prev == Shift1(diff) IN
  [i \in DOMAIN diff |-> FGt(diff[i], FZero) /\ FLt(prev[i], FZero)]

\* mutant: every row with the short average above the long one is a golden cross
GoldenMaskNoPrevious(diff) ==
  [i \in DOMAIN diff |-> FGt(diff[i], FZero)]

GoldenMask(diff) ==
  LET prev == Shift1(diff) IN
  [i \in DOMAIN diff |-> FGt(diff[i], FZero) /\ FLe(prev[i], FZero)]

DeathMask(diff) ==
  LET prev == Shift1(diff) IN
  [i \in DOMAIN diff |-> FLt(diff[i], FZero) /\ FGe(prev[i], FZero)]

calculate_indicators(self_data, p) ==
  LET d1 == SetColumn(self_data, "sma_short", sma(self_data.close, p.short_period))
      d2 == SetColumn(d1, "sma_long", sma(d1.close, p.long_period))
      d3 == SetColumn(d2, "sma_diff",
                      [i \in Index(d2) |-> FSub(d2.sma_short[i], d2.sma_long[i])])
      d4 == SetColumn(d3, "crossover", [i \in Index(d3) |-> 0])
      golden == GoldenMask(d4.sma_diff)
      d5 == [d4 EXCEPT !.crossover = [i \in Index(d4) |-> IF golden[i] THEN 1 ELSE @[i]]]
      death  == DeathMask(d5.sma_diff)
      d6 == [d5 EXCEPT !.crossover = [i \in Index(d5) |-> IF death[i] THEN -1 ELSE @[i]]]
  IN  d6

(***************************************************************************)
(* SMACrossoverStrategy.generate_signals                                   *)
(***************************************************************************)
\* one iteration of `for i in range(len(self.data))` of the confirmation loop:
\* the signal column after the body has run for row i
\* mutant: the confirmed signal is written at the crossover, not k rows later
ConfirmStepAtCross(df, k, sig, i) ==
  IF df.crossover[i] # 0 /\ i + k < df.n
  THEN LET future_idx == i + k IN
       IF df.crossover[i] = 1
       THEN IF FGt(df.sma_short[future_idx], df.sma_long[future_idx])
            THEN [sig EXCEPT ![i] = 1] ELSE sig
       ELSE IF FLt(df.sma_short[future_idx], df.sma_long[future_idx])
            THEN [sig EXCEPT ![i] = -1] ELSE sig
  ELSE sig

\* mutant: the signal is written k rows later without the confirmation test
ConfirmStepUnchecked(df, k, sig, i) ==
  IF df.crossover[i] # 0 /\ i + k < df.n
  THEN [sig EXCEPT ![i + k] = df.crossover[i]]
  ELSE sig

ConfirmStep(df, k, sig, i) ==
  IF df.crossover[i] # 0 /\ i + k < df.n
  THEN LET future_idx == i + k IN
       IF df.crossover[i] = 1
       THEN IF FGt(df.sma_short[future_idx], df.sma_long[future_idx])
            THEN [sig EXCEPT ![future_idx] = 1] ELSE sig
       ELSE IF df.crossover[i] = -1
            THEN IF FLt(df.sma_short[future_idx], df.sma_long[future_idx])
                 THEN [sig EXCEPT ![future_idx] = -1] ELSE sig
            ELSE sig
  ELSE sig

\* the signal column after the loop has run for rows 0 .. i-1
RECURSIVE ConfirmLoop(_, _, _, _)
ConfirmLoop(df, k, sig, i) ==
  IF i = 0 THEN sig ELSE ConfirmStep(df, k, ConfirmLoop(df, k, sig, i - 1), i - 1)

\* mutant: the confirmation loop is taken from min_candles_after_cross >= 1
generate_signalsFromOne(self_data, p) ==
  LET k  == p.min_candles_after_cross
      d1 == SetColumn(self_data, "signal", [i \in Index(self_data) |-> 0])
      d2 == IF k >= 1
            THEN [d1 EXCEPT !.signal = ConfirmLoop(d1, k, d1.signal, d1.n)]
            ELSE SetColumn(d1, "signal", d1.crossover)
      d3 == SetColumn(d2, "signal_strength",
                      [i \in Index(d2) |-> FDivMul(FAbs(d2.sma_diff[i]), d2.close[i], Percent)])
  IN  d3

\* mutant: the signal column is initialised only when it is missing, and the
\* signals of this run are added to the ones already there
generate_signalsLeaking(self_data, p) ==
  LET k  == p.min_candles_after_cross
      d0 == SetColumn(self_data, "signal", [i \in Index(self_data) |-> 0])
      d1 == IF k > 1
            THEN [d0 EXCEPT !.signal = ConfirmLoop(d0, k, d0.signal, d0.n)]
            ELSE SetColumn(d0, "signal", d0.crossover)
      d2 == IF "signal" \in self_data.columns
            THEN [d1 EXCEPT !.signal = [i \in Index(d1) |-> self_data.signal[i] + @[i]]]
            ELSE d1
      d3 == SetColumn(d2, "signal_strength",
                      [i \in Index(d2) |-> FDivMul(FAbs(d2.sma_diff[i]), d2.close[i], Percent)])
  IN  d3

generate_signals(self_data, p) ==
  LET k  == p.min_candles_after_cross
      d1 == SetColumn(self_data, "signal", [i \in Index(self_data) |-> 0])
      d2 == IF k > 1
            THEN [d1 EXCEPT !.signal = ConfirmLoop(d1, k, d1.signal, d1.n)]
            ELSE SetColumn(d1, "signal", d1.crossover)
      d3 == SetColumn(d2, "signal_strength",
                      [i \in Index(d2) |-> FDivMul(FAbs(d2.sma_diff[i]), d2.close[i], Percent)])
  IN  d3

(***************************************************************************)
(* SMACrossoverStrategy.get_entry_exit_pairs                               *)
(***************************************************************************)
NoValue == -1

\* the index labels of self.data[self.data['signal'] != 0], in row order
RECURSIVE SignalRowsUpTo(_, _)
SignalRowsUpTo(df, i) ==
  IF i = 0 THEN << >>
  ELSE IF df.signal[i - 1] # 0
       THEN Append(SignalRowsUpTo(df, i - 1), i - 1)
       ELSE SignalRowsUpTo(df, i - 1)

SignalRows(df) == SignalRowsUpTo(df, df.n)

\* the locals of the loop before its first iteration
PairsStart ==
  [position |-> "None", entry_price |-> NoValue, entry_time |-> NoValue,
   entry_idx |-> NoValue, trades |-> << >>]

\* mutant: the pips of every trade are taken as exit price minus entry price
TradeAsLong(st, df, idx, position_type, price_diff) ==
  [entry_time     |-> st.entry_time,
   entry_price    |-> st.entry_price,
   exit_time      |-> df.time[idx],
   exit_price     |-> df.close[idx],
   position_type  |-> position_type,
   pips_profit    |-> (df.close[idx] - st.entry_price) * PipScale,
   percent_profit |-> Frac(price_diff * Percent, st.entry_price)]

Trade(st, df, idx, position_type, price_diff) ==
  [entry_time     |-> st.entry_time,
   entry_price    |-> st.entry_price,
   exit_time      |-> df.time[idx],
   exit_price     |-> df.close[idx],
   position_type  |-> position_type,
   pips_profit    |-> price_diff * PipScale,
   percent_profit |-> Frac(price_diff * Percent, st.entry_price)]

Open(st, df, idx, position) ==
  [st EXCEPT !.position = position, !.entry_price = df.close[idx],
             !.entry_time = df.time[idx], !.entry_idx = idx]

\* mutant: a repeated same-direction signal re-opens the held position at the repeat
PairStepReenter(st, df, idx) ==
  LET sig == df.signal[idx] IN
  IF st.position = "None"
  THEN IF sig = 1 THEN Open(st, df, idx, "long")
       ELSE IF sig = -1 THEN Open(st, df, idx, "short") ELSE st
  ELSE IF st.position = "long" /\ sig = -1
       THEN Open([st EXCEPT !.trades = Append(@,
                    Trade(st, df, idx, "long", df.close[idx] - st.entry_price))],
                 df, idx, "short")
       ELSE IF st.position = "short" /\ sig = 1
            THEN Open([st EXCEPT !.trades = Append(@,
                         Trade(st, df, idx, "short", st.entry_price - df.close[idx]))],
                      df, idx, "long")
            ELSE Open(st, df, idx, st.position)

\* mutant: an exit records the trade and keeps the old direction
PairStepNoFlip(st, df, idx) ==
  LET sig == df.signal[idx] IN
  IF st.position = "None"
  THEN IF sig = 1 THEN Open(st, df, idx, "long")
       ELSE IF sig = -1 THEN Open(st, df, idx, "short") ELSE st
  ELSE IF st.position = "long" /\ sig = -1
       THEN Open([st EXCEPT !.trades = Append(@,
                    Trade(st, df, idx, "long", df.close[idx] - st.entry_price))],
                 df, idx, "long")
       ELSE IF st.position = "short" /\ sig = 1
            THEN Open([st EXCEPT !.trades = Append(@,
                         Trade(st, df, idx, "short", st.entry_price - df.close[idx]))],
                      df, idx, "short")
            ELSE st

\* mutant: an exit closes the position and leaves the strategy flat
PairStepNoReverse(st, df, idx) ==
  LET sig == df.signal[idx] IN
  IF st.position = "None"
  THEN IF sig = 1 THEN Open(st, df, idx, "long")
       ELSE IF sig = -1 THEN Open(st, df, idx, "short") ELSE st
  ELSE IF st.position = "long" /\ sig = -1
       THEN [PairsStart EXCEPT !.trades = Append(st.trades,
               Trade(st, df, idx, "long", df.close[idx] - st.entry_price))]
       ELSE IF st.position = "short" /\ sig = 1
            THEN [PairsStart EXCEPT !.trades = Append(st.trades,
                    Trade(st, df, idx, "short", st.entry_price - df.close[idx]))]
            ELSE st

\* the body of `for idx, row in signals.iterrows()` for the row labelled idx
PairStep(st, df, idx) ==
  LET sig == df.signal[idx] IN
  IF st.position = "None"
  THEN IF sig = 1 THEN Open(st, df, idx, "long")
       ELSE IF sig = -1 THEN Open(st, df, idx, "short") ELSE st
  ELSE IF st.position = "long" /\ sig = -1
       THEN Open([st EXCEPT !.trades = Append(@,
                    Trade(st, df, idx, "long", df.close[idx] - st.entry_price))],
                 df, idx, "short")
       ELSE IF st.position = "short" /\ sig = 1
            THEN Open([st EXCEPT !.trades = Append(@,
                         Trade(st, df, idx, "short", st.entry_price - df.close[idx]))],
                      df, idx, "long")
            ELSE st

\* the locals after the loop has consumed the first j rows of `rows`
RECURSIVE PairLoop(_, _, _)
PairLoop(df, rows, j) ==
  IF j = 0 THEN PairsStart ELSE PairStep(PairLoop(df, rows, j - 1), df, rows[j])

\* a call and what it gave back: a value, or the exception it raised; run
\* returns the object self.signals itself, written "self.signals"
Returned(op, val) == [op |-> op, status |-> "ok", exc |-> "", val |-> val]

Raised(op, exc) == [op |-> op, status |-> "error", exc |-> exc, val |-> << >>]

\* trades_df of a frame that has the signal column; an empty DataFrame is << >>
Ledger(df) ==
  LET rows == SignalRows(df) IN
  IF Len(rows) = 0 THEN << >> ELSE PairLoop(df, rows, Len(rows)).trades

get_entry_exit_pairs(self_data) ==
  IF self_data.kind = "None" THEN Raised("get_entry_exit_pairs", "TypeError")
  ELSE IF "signal" \notin self_data.columns THEN Raised("get_entry_exit_pairs", "KeyError")
  ELSE Returned("get_entry_exit_pairs", Ledger(self_data))

(***************************************************************************)
(* SMACrossoverStrategy.get_performance_summary                            *)
(***************************************************************************)
RECURSIVE SumPips(_)
SumPips(trades) ==
  IF trades = << >> THEN 0 ELSE trades[1].pips_profit + SumPips(Tail(trades))

RECURSIVE SumPercent(_)
SumPercent(trades) ==
  IF trades = << >> THEN FZero ELSE FAdd(trades[1].percent_profit, SumPercent(Tail(trades)))

MaxPips(trades) ==
  CHOOSE m \in {trades[i].pips_profit : i \in DOMAIN trades} :
    \A i \in DOMAIN trades : trades[i].pips_profit <= m

MinPips(trades) ==
  CHOOSE m \in {trades[i].pips_profit : i \in DOMAIN trades} :
    \A i \in DOMAIN trades : trades[i].pips_profit >= m

Abs(x) == IF x < 0 THEN -x ELSE x

\* float('inf')
Inf == [nan |-> FALSE, num |-> 1, den |-> 0]

\* mutant: a break-even trade is counted with the winners
IsWinOrEven(t) == t.pips_profit >= 0

IsWin(t) == t.pips_profit > 0

IsLoss(t) == t.pips_profit < 0

Summary(trades) ==
  IF Len(trades) = 0
  THEN [total_trades |-> 0, message |-> "No complete trades found"]
  ELSE LET winning_trades == SelectSeq(trades, IsWin)
           losing_trades  == SelectSeq(trades, IsLoss)
       IN [total_trades   |-> Len(trades),
           winning_trades |-> Len(winning_trades),
           losing_trades  |-> Len(losing_trades),
           win_rate       |-> Frac(Len(winning_trades) * Percent, Len(trades)),
           total_pips     |-> SumPips(trades),
           average_pips_per_trade |-> Frac(SumPips(trades), Len(trades)),
           best_trade_pips  |-> MaxPips(trades),
           worst_trade_pips |-> MinPips(trades),
           average_win_pips |-> IF Len(winning_trades) > 0
                                THEN Frac(SumPips(winning_trades), Len(winning_trades))
                                ELSE FZero,
           average_loss_pips |-> IF Len(losing_trades) > 0
                                 THEN Frac(SumPips(losing_trades), Len(losing_trades))
                                 ELSE FZero,
           profit_factor  |-> IF Len(losing_trades) > 0 /\ SumPips(losing_trades) # 0
                              THEN Frac(Abs(SumPips(winning_trades)),
                                        Abs(SumPips(losing_trades)))
                              ELSE Inf,
           total_return_percent |-> SumPercent(trades)]

\* mutant: without the `len(trades) == 0` guard the empty DataFrame has no
\* 'pips_profit' column
get_performance_summaryUnguarded(self_data) ==
  LET trades == get_entry_exit_pairs(self_data) IN
  IF trades.status = "error" THEN Raised("get_performance_summary", trades.exc)
  ELSE IF Len(trades.val) = 0 THEN Raised("get_performance_summary", "KeyError")
       ELSE Returned("get_performance_summary", Summary(trades.val))

get_performance_summary(self_data) ==
  LET trades == get_entry_exit_pairs(self_data) IN
  IF trades.status = "error" THEN Raised("get_performance_summary", trades.exc)
  ELSE Returned("get_performance_summary", Summary(trades.val))

(***************************************************************************)
(* BaseStrategy queries                                                    *)
(***************************************************************************)
\* one row of a frame, with its index label
Row(df, i) ==
  [idx |-> i, time |-> df.time[i], close |-> df.close[i],
   sma_short |-> df.sma_short[i], sma_long |-> df.sma_long[i],
   sma_diff |-> df.sma_diff[i], crossover |-> df.crossover[i],
   signal |-> df.signal[i], signal_strength |-> df.signal_strength[i]]

\* the rows 0 .. i-1 of df whose signal is in `keep`, in row order
RECURSIVE RowsWhere(_, _, _)
RowsWhere(df, keep, i) ==
  IF i = 0 THEN << >>
  ELSE IF df.signal[i - 1] \in keep
       THEN Append(RowsWhere(df, keep, i - 1), Row(df, i - 1))
       ELSE RowsWhere(df, keep, i - 1)

\* signal_type: "None" or one of 1, -1, 0
SignalTypes == {"None", "1", "-1", "0"}

KeepOf(signal_type) ==
  IF signal_type = "None" THEN {1, -1}
  ELSE IF signal_type = "1" THEN {1}
  ELSE IF signal_type = "-1" THEN {-1} ELSE {0}

get_all_signals(self_signals, signal_type) ==
  IF self_signals.kind = "None" THEN Returned("get_all_signals", << >>)
  ELSE Returned("get_all_signals", RowsWhere(self_signals, KeepOf(signal_type), self_signals.n))

NoSignalsGenerated ==
  [signal |-> 0, time |-> "None", price |-> "None", message |-> "No signals generated"]

\* SMACrossoverStrategy._format_signal_message
format_signal_message(row) ==
  [text |-> IF row.signal = 1 THEN "BUY signal (Golden Cross)"
            ELSE IF row.signal = -1 THEN "SELL signal (Death Cross)" ELSE "No signal",
   sma_short |-> row.sma_short, sma_long |-> row.sma_long, price |-> row.close]

get_latest_signal(self_signals) ==
  IF self_signals.kind = "None" \/ self_signals.n = 0
  THEN Returned("get_latest_signal", NoSignalsGenerated)
  ELSE LET latest == Row(self_signals, self_signals.n - 1) IN
       Returned("get_latest_signal",
         [signal |-> latest.signal,
          signal_name |-> IF latest.signal = 1 THEN "BUY"
                          ELSE IF latest.signal = -1 THEN "SELL" ELSE "HOLD",
          time |-> latest.time, price |-> latest.close,
          message |-> format_signal_message(latest)])

Count(col, v) == Cardinality({i \in DOMAIN col : col[i] = v})

EmptyDict == [x \in {} |-> 0]

get_summary(self_data, self_signals, p) ==
  IF self_signals.kind = "None" THEN Returned("get_summary", EmptyDict)
  ELSE LET buy_signals   == Count(self_signals.signal, 1)
           sell_signals  == Count(self_signals.signal, -1)
           total_signals == buy_signals + sell_signals
       IN Returned("get_summary",
            [strategy_name |-> "SMA_Crossover",
             parameters    |-> p,
             data_points   |-> IF self_data.kind # "None" THEN self_data.n ELSE 0,
             date_range    |->
               IF self_data.kind # "None" /\ self_data.n > 0
               THEN [start |-> self_data.time[0], end |-> self_data.time[self_data.n - 1]]
               ELSE [start |-> NoValue, end |-> NoValue],
             signals |->
               [total |-> total_signals, buy |-> buy_signals, sell |-> sell_signals,
                buy_percentage  |-> IF total_signals > 0
                                    THEN Frac(buy_signals * Percent, total_signals)
                                    ELSE FZero,
                sell_percentage |-> IF total_signals > 0
                                    THEN Frac(sell_signals * Percent, total_signals)
                                    ELSE FZero]])

export_signals(self_signals) ==
  IF self_signals.kind = "None" THEN Raised("export_signals", "ValueError")
  ELSE Returned("export_signals", RowsWhere(self_signals, {1, -1}, self_signals.n))

(***************************************************************************)
(* BaseStrategy.load_data                                                  *)
(***************************************************************************)
\* rows sorted by their time, ascending (the times of a table are distinct)
RECURSIVE Insert(_, _)
Insert(sorted, r) ==
  IF sorted = << >> THEN << r >>
  ELSE IF r.time < sorted[1].time THEN << r >> \o sorted
       ELSE << sorted[1] >> \o Insert(Tail(sorted), r)

RECURSIVE sort_values(_)
sort_values(rows) ==
  IF rows = << >> THEN << >> ELSE Insert(sort_values(SubSeq(rows, 1, Len(rows) - 1)), rows[Len(rows)])

\* the frame of a table's rows, in the given order, re-indexed 0..n-1
FrameOf(columns, rows) ==
  [EmptyFrame EXCEPT !.columns = columns, !.n = Len(rows),
                     !.time = [i \in 0 .. (Len(rows) - 1) |-> rows[i + 1].time],
                     !.close = [i \in 0 .. (Len(rows) - 1) |-> rows[i + 1].close]]

\* self.data after load_data(table) for a table that has the required columns
Loaded(table) == FrameOf(table.columns, sort_values(table.rows))

(***************************************************************************)
(* The state of one strategy object and of its caller.                     *)
(***************************************************************************)
VARIABLES
  constructed,   \* an SMACrossoverStrategy instance exists
  parameters,    \* short_period, long_period, min_candles_after_cross
  data,          \* self.data
  signals,       \* self.signals
  last_loaded,   \* the table most recently accepted by load_data, sorted
  ret,           \* the last call and what it returned or raised
  caller,        \* the candle table object the caller holds (SpecOwner), or NoTable
  pc,            \* "idle", or "pairs" inside the loop of get_entry_exit_pairs
  cursor,        \* rows of the signal subsequence consumed so far
  position, entry_price, entry_time, entry_idx, trades   \* the loop's locals

locals == <<position, entry_price, entry_time, entry_idx, trades>>

vars == <<constructed, parameters, data, signals, last_loaded, ret, caller, pc, cursor,
          position, entry_price, entry_time, entry_idx, trades>>

\* no caller's table is followed
NoTable == [columns |-> {}, rows |-> << >>, time_dtype |-> "None"]

NoParameters == [short_period |-> 0, long_period |-> 0, min_candles_after_cross |-> 0]

Params(s, l, k) == [short_period |-> s, long_period |-> l, min_candles_after_cross |-> k]

LocalsAre(st) ==
  /\ position = st.position
  /\ entry_price = st.entry_price
  /\ entry_time = st.entry_time
  /\ entry_idx = st.entry_idx
  /\ trades = st.trades

LocalsBecome(st) ==
  /\ position' = st.position
  /\ entry_price' = st.entry_price
  /\ entry_time' = st.entry_time
  /\ entry_idx' = st.entry_idx
  /\ trades' = st.trades

LocalsNow ==
  [position |-> position, entry_price |-> entry_price, entry_time |-> entry_time,
   entry_idx |-> entry_idx, trades |-> trades]

\* sequences of closes of length 0..maxlen over `prices`
SeqsUpTo(prices, maxlen) == UNION {[1 .. n -> prices] : n \in 0 .. maxlen}

\* candle tables: closes in time order, handed over ascending or descending
Ascending(closes) == [i \in 1 .. Len(closes) |-> [time |-> i, close |-> closes[i]]]

Descending(closes) ==
  [i \in 1 .. Len(closes) |->
     [time |-> Len(closes) + 1 - i, close |-> closes[Len(closes) + 1 - i]]]

GoodTables ==
  {[columns |-> RequiredColumns, rows |-> Ascending(c)] : c \in SeqsUpTo(LoadPrices, MaxLoadLen)}
  \cup
  {[columns |-> RequiredColumns, rows |-> Descending(c)] : c \in SeqsUpTo(LoadPrices, MaxLoadLen)}

BadTables ==
  {[columns |-> RequiredColumns \ {col}, rows |-> Ascending(<<1>>)] : col \in RequiredColumns}

InputTables == GoodTables \cup BadTables

(***************************************************************************)
(* Operations.                                                             *)
(***************************************************************************)
\* the ValueError of __init__; its message names the two periods
InitError(s, l) == [Raised("__init__", "ValueError") EXCEPT !.val = <<s, l>>]

\* mutant: equal periods are let through
ConstructAllowingEqual(s, l, k) ==
  /\ ~constructed
  /\ pc = "idle"
  /\ IF s > l
     THEN /\ ret' = InitError(s, l)
          /\ UNCHANGED <<constructed, parameters, data, signals>>
     ELSE /\ constructed' = TRUE
          /\ parameters' = Params(s, l, k)
          /\ data' = NoneFrame
          /\ signals' = NoneFrame
          /\ ret' = Returned("__init__", "None")
  /\ UNCHANGED <<caller, last_loaded, pc, cursor, locals>>

\* SMACrossoverStrategy.__init__
Construct(s, l, k) ==
  /\ ~constructed
  /\ pc = "idle"
  /\ IF s >= l
     THEN /\ ret' = InitError(s, l)
          /\ UNCHANGED <<constructed, parameters, data, signals>>
     ELSE /\ constructed' = TRUE
          /\ parameters' = Params(s, l, k)
          /\ data' = NoneFrame
          /\ signals' = NoneFrame
          /\ ret' = Returned("__init__", "None")
  /\ UNCHANGED <<caller, last_loaded, pc, cursor, locals>>

\* mutant: the time column is converted on the caller's own table, not on a copy
LoadDataInPlace(table) ==
  /\ constructed
  /\ pc = "idle"
  /\ IF ~(RequiredColumns \subseteq table.columns)
     THEN /\ ret' = Raised("load_data", "ValueError")
          /\ UNCHANGED <<data, last_loaded, caller>>
     ELSE /\ caller' = IF table = caller
                       THEN [caller EXCEPT !.time_dtype = "datetime64"]
                       ELSE caller
          /\ data' = Loaded(table)
          /\ last_loaded' = sort_values(table.rows)
          /\ ret' = Returned("load_data", "None")
  /\ UNCHANGED <<constructed, parameters, signals, pc, cursor, locals>>

\* mutant: the table is copied into self.data before the columns are validated
LoadDataAssignFirst(table) ==
  /\ constructed
  /\ pc = "idle"
  /\ IF ~(RequiredColumns \subseteq table.columns)
     THEN /\ ret' = Raised("load_data", "ValueError")
          /\ data' = FrameOf(table.columns, table.rows)
          /\ UNCHANGED last_loaded
     ELSE /\ data' = Loaded(table)
          /\ last_loaded' = sort_values(table.rows)
          /\ ret' = Returned("load_data", "None")
  /\ UNCHANGED <<caller, constructed, parameters, signals, pc, cursor, locals>>

\* BaseStrategy.load_data
LoadData(table) ==
  /\ constructed
  /\ pc = "idle"
  /\ IF ~(RequiredColumns \subseteq table.columns)
     THEN /\ ret' = Raised("load_data", "ValueError")
          /\ UNCHANGED <<data, last_loaded>>
     ELSE /\ data' = Loaded(table)
          /\ last_loaded' = sort_values(table.rows)
          /\ ret' = Returned("load_data", "None")
  /\ UNCHANGED <<caller, constructed, parameters, signals, pc, cursor, locals>>

\* mutant: run returns the signals of an earlier run when there are any
RunCached ==
  /\ constructed
  /\ pc = "idle"
  /\ IF data.kind = "None"
     THEN /\ ret' = Raised("run", "ValueError")
          /\ UNCHANGED <<data, signals>>
     ELSE IF signals.kind # "None"
          THEN /\ ret' = Returned("run", "self.signals")
               /\ UNCHANGED <<data, signals>>
          ELSE LET d == generate_signals(calculate_indicators(data, parameters), parameters) IN
               /\ data' = d
               /\ signals' = d
               /\ ret' = Returned("run", "self.signals")
  /\ UNCHANGED <<caller, constructed, parameters, last_loaded, pc, cursor, locals>>

\* mutant: run treats a table without rows like no table at all
RunRejectingEmpty ==
  /\ constructed
  /\ pc = "idle"
  /\ IF data.kind = "None" \/ data.n = 0
     THEN /\ ret' = Raised("run", "ValueError")
          /\ UNCHANGED <<data, signals>>
     ELSE LET d == generate_signals(calculate_indicators(data, parameters), parameters) IN
          /\ data' = d
          /\ signals' = d
          /\ ret' = Returned("run", "self.signals")
  /\ UNCHANGED <<caller, constructed, parameters, last_loaded, pc, cursor, locals>>

\* BaseStrategy.run
Run ==
  /\ constructed
  /\ pc = "idle"
  /\ IF data.kind = "None"
     THEN /\ ret' = Raised("run", "ValueError")
          /\ UNCHANGED <<data, signals>>
     ELSE LET d == generate_signals(calculate_indicators(data, parameters), parameters) IN
          /\ data' = d
          /\ signals' = d
          /\ ret' = Returned("run", "self.signals")
  /\ UNCHANGED <<caller, constructed, parameters, last_loaded, pc, cursor, locals>>

Query(result) ==
  /\ constructed
  /\ pc = "idle"
  /\ ret' = result
  /\ UNCHANGED <<caller, constructed, parameters, data, signals, last_loaded, pc, cursor, locals>>

GetLatestSignal == Query(get_latest_signal(signals))

GetAllSignals(signal_type) == Query(get_all_signals(signals, signal_type))

GetSummary == Query(get_summary(data, signals, parameters))

ExportSignals == Query(export_signals(signals))

GetEntryExitPairs == Query(get_entry_exit_pairs(data))

GetPerformanceSummary == Query(get_performance_summary(data))

(***************************************************************************)
(* get_entry_exit_pairs, one loop iteration at a time.                     *)
(***************************************************************************)
PairsCall ==
  /\ constructed
  /\ pc = "idle"
  /\ IF data.kind = "None" \/ "signal" \notin data.columns \/ Len(SignalRows(data)) = 0
     THEN /\ ret' = get_entry_exit_pairs(data)
          /\ UNCHANGED <<pc, cursor, locals>>
     ELSE /\ pc' = "pairs"
          /\ cursor' = 0
          /\ LocalsBecome(PairsStart)
          /\ ret' = [op |-> "get_entry_exit_pairs", status |-> "running", exc |-> "", val |-> << >>]
  /\ UNCHANGED <<caller, constructed, parameters, data, signals, last_loaded>>

PairsIter ==
  /\ pc = "pairs"
  /\ cursor < Len(SignalRows(data))
  /\ LocalsBecome(PairStep(LocalsNow, data, SignalRows(data)[cursor + 1]))
  /\ cursor' = cursor + 1
  /\ UNCHANGED <<caller, constructed, parameters, data, signals, last_loaded, ret, pc>>

\* mutant: the position still open after the last signal is closed at the last candle
PairsReturnClosingOpen ==
  /\ pc = "pairs"
  /\ cursor = Len(SignalRows(data))
  /\ ret' = Returned("get_entry_exit_pairs",
               IF position = "None" THEN trades
               ELSE Append(trades,
                      Trade(LocalsNow, data, data.n - 1, position,
                            IF position = "long"
                            THEN data.close[data.n - 1] - entry_price
                            ELSE entry_price - data.close[data.n - 1])))
  /\ pc' = "idle"
  /\ cursor' = 0
  /\ LocalsBecome(PairsStart)
  /\ UNCHANGED <<caller, constructed, parameters, data, signals, last_loaded>>

PairsReturn ==
  /\ pc = "pairs"
  /\ cursor = Len(SignalRows(data))
  /\ ret' = Returned("get_entry_exit_pairs", trades)
  /\ pc' = "idle"
  /\ cursor' = 0
  /\ LocalsBecome(PairsStart)
  /\ UNCHANGED <<caller, constructed, parameters, data, signals, last_loaded>>

(***************************************************************************)
(* Spec: the life cycle of one strategy object, every call atomic.         *)
(***************************************************************************)
Init ==
  /\ constructed = FALSE
  /\ parameters = NoParameters
  /\ data = NoneFrame
  /\ signals = NoneFrame
  /\ last_loaded = << >>
  /\ ret = Returned("", "None")
  /\ pc = "idle"
  /\ caller = NoTable
  /\ cursor = 0
  /\ LocalsAre(PairsStart)

Next ==
  \/ \E s \in CtorPeriods, l \in CtorPeriods, k \in Lags : Construct(s, l, k)
  \/ \E table \in InputTables : LoadData(table)
  \/ Run
  \/ GetLatestSignal
  \/ \E signal_type \in SignalTypes : GetAllSignals(signal_type)
  \/ GetSummary
  \/ ExportSignals
  \/ GetEntryExitPairs
  \/ GetPerformanceSummary

Spec == Init /\ [][Next]_vars

(***************************************************************************)
(* SpecPipeline: a constructed strategy with a loaded table; run, then the *)
(* loop of get_entry_exit_pairs step by step.                              *)
(***************************************************************************)
InitPipeline ==
  /\ constructed = TRUE
  /\ parameters \in {q \in [short_period : Periods, long_period : Periods,
                            min_candles_after_cross : 1 .. MaxLag] :
                       q.short_period < q.long_period}
  /\ \E closes \in SeqsUpTo(Prices, MaxLen) :
       /\ data = Loaded([columns |-> RequiredColumns, rows |-> Ascending(closes)])
       /\ last_loaded = Ascending(closes)
  /\ signals = NoneFrame
  /\ ret = Returned("load_data", "None")
  /\ pc = "idle"
  /\ caller = NoTable
  /\ cursor = 0
  /\ LocalsAre(PairsStart)

NextPipeline ==
  \/ Run
  \/ PairsCall
  \/ PairsIter
  \/ PairsReturn

SpecPipeline == InitPipeline /\ [][NextPipeline]_vars

(***************************************************************************)
(* SpecReport: a constructed strategy with a loaded table; run and the     *)
(* ledger and performance queries, every call atomic.                      *)
(***************************************************************************)
NextReport ==
  \/ Run
  \/ GetEntryExitPairs
  \/ GetPerformanceSummary

SpecReport == InitPipeline /\ [][NextReport]_vars

(***************************************************************************)
(* SpecTrend: a constructed strategy loaded with a strictly rising series  *)
(* of closes; run and get_summary.                                         *)
(***************************************************************************)
\* the strictly increasing sequence of the members of a set of prices
RECURSIVE Rising(_)
Rising(S) ==
  IF S = {} THEN << >>
  ELSE LET top == CHOOSE x \in S : \A y \in S : y <= x IN Append(Rising(S \ {top}), top)

InitTrend ==
  /\ constructed = TRUE
  /\ parameters \in {q \in [short_period : CtorPeriods, long_period : CtorPeriods,
                            min_candles_after_cross : 1 .. MaxLag] :
                       q.short_period < q.long_period}
  /\ \E S \in SUBSET (1 .. MaxTrendPrice) :
       /\ data = Loaded([columns |-> RequiredColumns, rows |-> Ascending(Rising(S))])
       /\ last_loaded = Ascending(Rising(S))
  /\ signals = NoneFrame
  /\ ret = Returned("load_data", "None")
  /\ pc = "idle"
  /\ caller = NoTable
  /\ cursor = 0
  /\ LocalsAre(PairsStart)

NextTrend ==
  \/ Run
  \/ GetSummary

SpecTrend == InitTrend /\ [][NextTrend]_vars

(***************************************************************************)
(* SpecRamp: a strategy with periods 5 and 10 loaded with `flat` closes of *)
(* 1 followed by 2, 3, ..., top; run.                                      *)
(***************************************************************************)
Ramp(flat, top) ==
  [i \in 1 .. (flat + top - 1) |-> IF i <= flat THEN 1 ELSE i - flat + 1]

InitRamp ==
  /\ constructed = TRUE
  /\ \E k \in 1 .. MaxLag : parameters = Params(5, 10, k)
  /\ \E flat \in 0 .. MaxFlat, top \in 1 .. MaxTop :
       /\ data = Loaded([columns |-> RequiredColumns, rows |-> Ascending(Ramp(flat, top))])
       /\ last_loaded = Ascending(Ramp(flat, top))
  /\ signals = NoneFrame
  /\ ret = Returned("load_data", "None")
  /\ pc = "idle"
  /\ caller = NoTable
  /\ cursor = 0
  /\ LocalsAre(PairsStart)

NextRamp == Run

SpecRamp == InitRamp /\ [][NextRamp]_vars

(***************************************************************************)
(* SpecRerun: a strategy that has loaded a table, run once and asked for   *)
(* its performance summary; run again and the ledger queries.              *)
(***************************************************************************)
InitRerun ==
  /\ constructed = TRUE
  /\ parameters \in {q \in [short_period : Periods, long_period : Periods,
                            min_candles_after_cross : 1 .. MaxLag] :
                       q.short_period < q.long_period}
  /\ \E closes \in SeqsUpTo(Prices, MaxLen) :
       /\ last_loaded = Ascending(closes)
       /\ data = generate_signals(
                   calculate_indicators(
                     Loaded([columns |-> RequiredColumns, rows |-> Ascending(closes)]),
                     parameters),
                   parameters)
  /\ signals = data
  /\ ret = get_performance_summary(data)
  /\ pc = "idle"
  /\ caller = NoTable
  /\ cursor = 0
  /\ LocalsAre(PairsStart)

SpecRerun == InitRerun /\ [][NextReport]_vars

(***************************************************************************)
(* SpecLoad: load_data in its two assignments to self.data, the copy of    *)
(* the table and then the sort, on tables whose rows come in any order.    *)
(***************************************************************************)
\* the tables of n candles with the times 1..n in every order
PermTables ==
  UNION {{[columns |-> RequiredColumns,
           rows |-> [i \in 1 .. n |-> [time |-> order[i], close |-> closes[i]]]] :
            order \in {f \in [1 .. n -> 1 .. n] : \A i, j \in 1 .. n : f[i] = f[j] => i = j},
            closes \in [1 .. n -> LoadPrices]} : n \in 0 .. MaxPermLen}

\* `self.data = data.copy()`, after the check of the columns
LoadCopy(table) ==
  /\ constructed
  /\ pc = "idle"
  /\ IF ~(RequiredColumns \subseteq table.columns)
     THEN /\ ret' = Raised("load_data", "ValueError")
          /\ UNCHANGED <<data, pc>>
     ELSE /\ data' = FrameOf(table.columns, table.rows)
          /\ pc' = "load"
          /\ ret' = [op |-> "load_data", status |-> "running", exc |-> "", val |-> << >>]
  /\ UNCHANGED <<caller, constructed, parameters, signals, last_loaded, cursor, locals>>

\* the rows of a frame, in index order
RowsOf(df) == [i \in 1 .. df.n |-> [time |-> df.time[i - 1], close |-> df.close[i - 1]]]

\* mutant: the sorted frame is not assigned back
LoadSortDiscarded ==
  /\ pc = "load"
  /\ data' = FrameOf(data.columns, RowsOf(data))
  /\ last_loaded' = sort_values(RowsOf(data))
  /\ pc' = "idle"
  /\ ret' = Returned("load_data", "None")
  /\ UNCHANGED <<caller, constructed, parameters, signals, cursor, locals>>

\* `self.data = self.data.sort_values('time').reset_index(drop=True)`
LoadSort ==
  /\ pc = "load"
  /\ data' = FrameOf(data.columns, sort_values(RowsOf(data)))
  /\ last_loaded' = sort_values(RowsOf(data))
  /\ pc' = "idle"
  /\ ret' = Returned("load_data", "None")
  /\ UNCHANGED <<caller, constructed, parameters, signals, cursor, locals>>

InitLoad ==
  /\ constructed = TRUE
  /\ parameters = Params(1, 2, 1)
  /\ data = NoneFrame
  /\ signals = NoneFrame
  /\ last_loaded = << >>
  /\ ret = Returned("__init__", "None")
  /\ pc = "idle"
  /\ caller = NoTable
  /\ cursor = 0
  /\ LocalsAre(PairsStart)

NextLoad ==
  \/ \E table \in PermTables \cup BadTables : LoadCopy(table)
  \/ LoadSort

SpecLoad == InitLoad /\ [][NextLoad]_vars

(***************************************************************************)
(* Properties of the trade reconstruction (SpecPipeline).                  *)
(***************************************************************************)
\* the ledger as far as it is known: the trades appended so far inside the
\* loop, or the ledger the last call of get_entry_exit_pairs returned
LedgerNow ==
  IF pc = "pairs" THEN trades
  ELSE IF ret.op = "get_entry_exit_pairs" /\ ret.status = "ok" THEN ret.val
       ELSE << >>

PairsReturned == pc = "idle" /\ ret.op = "get_entry_exit_pairs" /\ ret.status = "ok"

\* the signal of the j-th row of the non-zero signal subsequence
SignalAt(j) == data.signal[SignalRows(data)[j]]

Opposite(position_type) == IF position_type = "long" THEN "short" ELSE "long"

\* C1: an opposite signal closes the held position and reopens the reverse
\* one at that same signal: each trade of the ledger starts at the time and
\* price at which the trade before it ended, and inside the loop the open
\* position is the reverse of the last trade, entered where that trade ended.
C1_ReversalNoFlatInterval ==
  /\ \A i \in 1 .. (Len(LedgerNow) - 1) :
       /\ LedgerNow[i + 1].entry_time = LedgerNow[i].exit_time
       /\ LedgerNow[i + 1].entry_price = LedgerNow[i].exit_price
  /\ (pc = "pairs" /\ Len(trades) > 0) =>
       /\ position = Opposite(trades[Len(trades)].position_type)
       /\ entry_time = trades[Len(trades)].exit_time
       /\ entry_price = trades[Len(trades)].exit_price

C1_Witness ==
  /\ PairsReturned
  /\ Len(ret.val) >= 2
  /\ ret.val[2].entry_time = ret.val[1].exit_time

\* C2: the position_type of consecutive trades of the ledger alternates.
C2_LedgerAlternates ==
  \A i \in 1 .. (Len(LedgerNow) - 1) :
    LedgerNow[i].position_type # LedgerNow[i + 1].position_type

C2_Witness ==
  /\ PairsReturned
  /\ Len(ret.val) >= 3
  /\ ret.val[1].position_type = "long"
  /\ ret.val[2].position_type = "short"
  /\ ret.val[3].position_type = "long"

\* the next row of the loop repeats the direction of the held position
C3_RepeatNext ==
  /\ pc = "pairs"
  /\ cursor < Len(SignalRows(data))
  /\ \/ position = "long" /\ SignalAt(cursor + 1) = 1
     \/ position = "short" /\ SignalAt(cursor + 1) = -1

\* the row of the subsequence at which the trade t was entered: the first
\* row of a run of equal signals, in the direction of the trade
C3_EnteredAtFirstOfRun(t) ==
  \E m \in 1 .. Len(SignalRows(data)) :
    /\ t.entry_time = data.time[SignalRows(data)[m]]
    /\ t.entry_price = data.close[SignalRows(data)[m]]
    /\ SignalAt(m) = (IF t.position_type = "long" THEN 1 ELSE -1)
    /\ m = 1 \/ SignalAt(m - 1) # SignalAt(m)

\* C3: a signal in the direction of the held position appends no trade and
\* leaves position, entry time and entry price as they are, so every trade
\* carries the time and close of the first signal that opened its position.
C3_SameDirectionNoOp ==
  /\ [][C3_RepeatNext /\ cursor' = cursor + 1 => UNCHANGED locals]_vars
  /\ [](\A i \in 1 .. Len(LedgerNow) : C3_EnteredAtFirstOfRun(LedgerNow[i]))

\* a repeat was consumed while a position was held and the trade of that
\* position has since been recorded, entered before the repeat
C3_Witness ==
  /\ pc = "pairs"
  /\ \E j \in 2 .. (cursor - 1) :
       /\ SignalAt(j) = SignalAt(j - 1)
       /\ SignalAt(j + 1) # SignalAt(j)
       /\ trades[Len(trades)].exit_time = data.time[SignalRows(data)[j + 1]]
       /\ trades[Len(trades)].entry_time < data.time[SignalRows(data)[j]]

\* the number of direction changes between consecutive non-zero signals
C4_DirectionChanges ==
  Cardinality({j \in 2 .. Len(SignalRows(data)) : SignalAt(j) # SignalAt(j - 1)})

\* C4: the position still open when the signals are exhausted is not
\* recorded: the ledger has one trade per direction change, so n >= 1
\* strictly alternating signals give n - 1 trades.
C4_OpenPositionNotRecorded ==
  PairsReturned =>
    /\ Len(ret.val) = C4_DirectionChanges
    /\ (/\ Len(SignalRows(data)) >= 1
        /\ \A j \in 2 .. Len(SignalRows(data)) : SignalAt(j) # SignalAt(j - 1))
       => Len(ret.val) = Len(SignalRows(data)) - 1

\* at least four strictly alternating signals, one trade fewer
C4_Witness ==
  /\ PairsReturned
  /\ Len(SignalRows(data)) >= 4
  /\ \A j \in 2 .. Len(SignalRows(data)) : SignalAt(j) # SignalAt(j - 1)
  /\ Len(ret.val) = Len(SignalRows(data)) - 1

(***************************************************************************)
(* Properties of the indicators and the signals (SpecPipeline).            *)
(***************************************************************************)
HasRun == data.kind # "None" /\ "signal" \in data.columns

\* the sum of the `period` closes ending at row i
C5_Window(i, period) == SumRange(data.close, i - period + 1, i)

\* SMA(short) - SMA(long) at row i is defined when both windows are full
C5_Defined(i) == i \in Index(data) /\ i >= parameters.long_period - 1

\* the sign of SMA(short) - SMA(long) at row i, as the integer
\* long * sum(short window) - short * sum(long window)
C5_Diff(i) ==
  parameters.long_period * C5_Window(i, parameters.short_period)
  - parameters.short_period * C5_Window(i, parameters.long_period)

C5_Golden(i) ==
  C5_Defined(i) /\ C5_Defined(i - 1) /\ C5_Diff(i) > 0 /\ C5_Diff(i - 1) <= 0

C5_Death(i) ==
  C5_Defined(i) /\ C5_Defined(i - 1) /\ C5_Diff(i) < 0 /\ C5_Diff(i - 1) >= 0

\* C5: crossover is +1 exactly at a golden cross, -1 exactly at a death
\* cross and 0 elsewhere; the difference is defined from row long_period-1
\* on, and that first row is never a crossover.
C5_CrossoverClassification ==
  HasRun =>
    /\ \A i \in Index(data) :
         /\ data.crossover[i] = 1 <=> C5_Golden(i)
         /\ data.crossover[i] = -1 <=> C5_Death(i)
         /\ data.crossover[i] = 0 <=> ~C5_Golden(i) /\ ~C5_Death(i)
         /\ data.sma_diff[i].nan <=> ~C5_Defined(i)
         /\ ~data.sma_diff[i].nan =>
              data.sma_diff[i].num * parameters.short_period * parameters.long_period
                = C5_Diff(i) * data.sma_diff[i].den
    /\ data.n >= parameters.long_period => data.crossover[parameters.long_period - 1] = 0

\* the first defined difference is positive, and both kinds of cross occur later
C5_Witness ==
  /\ HasRun
  /\ data.n >= parameters.long_period
  /\ C5_Diff(parameters.long_period - 1) > 0
  /\ \E i, j \in Index(data) : data.crossover[i] = 1 /\ data.crossover[j] = -1

\* C6: with min_candles_after_cross = 1 the signal series is the crossover series.
C6_ImmediateSignalIsCrossover ==
  (HasRun /\ parameters.min_candles_after_cross = 1) =>
    \A i \in Index(data) : data.signal[i] = data.crossover[i]

C6_Witness ==
  /\ HasRun
  /\ parameters.min_candles_after_cross = 1
  /\ \E i, j \in Index(data) : data.signal[i] = 1 /\ data.signal[j] = -1

\* the short/long relationship a crossover of direction c requires, at row j
RelationHolds(c, j) ==
  IF c = 1 THEN FGt(data.sma_short[j], data.sma_long[j])
  ELSE FLt(data.sma_short[j], data.sma_long[j])

\* C7: with min_candles_after_cross = k > 1, signal[j] is +1 (-1) exactly
\* when row j-k holds a golden (death) crossover and the short average is
\* above (below) the long one at row j; every other row has signal 0.
C7_ConfirmedSignal ==
  (HasRun /\ parameters.min_candles_after_cross > 1) =>
    LET k == parameters.min_candles_after_cross IN
    \A j \in Index(data) :
      /\ data.signal[j] = 1 <=>
           (j - k) \in Index(data) /\ data.crossover[j - k] = 1 /\ RelationHolds(1, j)
      /\ data.signal[j] = -1 <=>
           (j - k) \in Index(data) /\ data.crossover[j - k] = -1 /\ RelationHolds(-1, j)
      /\ data.signal[j] \in {1, -1, 0}

\* a confirmed signal k rows after its crossover, the crossover row itself
\* without a signal, and a crossover too late to be confirmed
C7_Witness ==
  /\ HasRun
  /\ parameters.min_candles_after_cross > 1
  /\ \E i \in Index(data) :
       /\ data.crossover[i] # 0
       /\ (i + parameters.min_candles_after_cross) \in Index(data)
       /\ data.signal[i + parameters.min_candles_after_cross] = data.crossover[i]
       /\ data.signal[i] = 0
  /\ \E i \in Index(data) :
       data.crossover[i] # 0 /\ i + parameters.min_candles_after_cross >= data.n

\* C8 as claimed: a crossover at i whose required relationship fails at some
\* row j with i < j <= i+k has no signal at i+k.
C8_DroppedOnAnyReversal ==
  (HasRun /\ parameters.min_candles_after_cross > 1) =>
    LET k == parameters.min_candles_after_cross IN
    \A i \in Index(data) :
      (/\ data.crossover[i] # 0
       /\ (i + k) \in Index(data)
       /\ \E j \in (i + 1) .. (i + k) : ~RelationHolds(data.crossover[i], j))
      => data.signal[i + k] = 0

\* C8 amended: a crossover at i whose required relationship fails at row i+k
\* has no signal at i+k (the rows between i and i+k are not looked at).
C8_DroppedWhenUnconfirmed ==
  (HasRun /\ parameters.min_candles_after_cross > 1) =>
    LET k == parameters.min_candles_after_cross IN
    \A i \in Index(data) :
      (/\ data.crossover[i] # 0
       /\ (i + k) \in Index(data)
       /\ ~RelationHolds(data.crossover[i], i + k))
      => data.signal[i + k] = 0

C8_Witness ==
  /\ HasRun
  /\ parameters.min_candles_after_cross > 1
  /\ \E i \in Index(data) :
       /\ data.crossover[i] # 0
       /\ (i + parameters.min_candles_after_cross) \in Index(data)
       /\ ~RelationHolds(data.crossover[i], i + parameters.min_candles_after_cross)
       /\ data.signal[i + parameters.min_candles_after_cross] = 0

(***************************************************************************)
(* Properties of the life cycle (Spec).                                    *)
(***************************************************************************)
QueryOps ==
  {"get_all_signals", "get_latest_signal", "get_summary",
   "get_entry_exit_pairs", "get_performance_summary"}

\* what a query gives when there is nothing to report: an error, or a result
\* that holds no signal and no trade (read as widely as the claim allows: a
\* summary that counts zero signals and a latest signal of 0 pass as empty)
NotRunResult(r) ==
  \/ r.status = "error"
  \/ r.op = "get_all_signals" /\ r.val = << >>
  \/ r.op = "get_latest_signal" /\ r.val.signal = 0
  \/ r.op = "get_summary" /\ (r.val = EmptyDict \/ r.val.signals.total = 0)
  \/ r.op = "get_entry_exit_pairs" /\ r.val = << >>
  \/ r.op = "get_performance_summary" /\ r.val.total_trades = 0

\* C9 as claimed: while run has not completed on the loaded candle sequence,
\* every query of signals, trades and performance gives a not-run result.
C9_NotRunNeverStale ==
  (constructed /\ ~HasRun /\ ret.op \in QueryOps) => NotRunResult(ret)

\* the frame a run leaves, computed from the last loaded table and the
\* parameters alone
FreshRun ==
  generate_signals(
    calculate_indicators(FrameOf(RequiredColumns, last_loaded), parameters),
    parameters)

\* C10: after a run, the signals, the ledger and the summary are those of
\* the most recently loaded candle sequence and the parameters, whatever was
\* loaded or run before; so a repeated query returns the same result.
C10_ResultsOfLastLoadOnly ==
  /\ (ret.op = "run" /\ ret.status = "ok") =>
       /\ ret.val = "self.signals"
       /\ data = FreshRun
       /\ signals = FreshRun
  /\ (constructed /\ HasRun) =>
       /\ data = FreshRun
       /\ signals = FreshRun
       /\ ret.op = "get_entry_exit_pairs" => ret = get_entry_exit_pairs(FreshRun)
       /\ ret.op = "get_performance_summary" => ret = get_performance_summary(FreshRun)
       /\ ret.op = "get_all_signals" =>
            \E signal_type \in SignalTypes : ret = get_all_signals(FreshRun, signal_type)
       /\ ret.op = "get_latest_signal" => ret = get_latest_signal(FreshRun)

\* a summary with at least one trade, after a run
C10_Witness ==
  /\ constructed
  /\ HasRun
  /\ ret.op = "get_performance_summary"
  /\ ret.status = "ok"
  /\ ret.val.total_trades >= 1
  /\ ret.val = Summary(Ledger(FreshRun))

(***************************************************************************)
(* Properties of the performance summary (SpecReport).                     *)
(***************************************************************************)
SummaryReturned ==
  pc = "idle" /\ ret.op = "get_performance_summary" /\ ret.status = "ok"

\* the pips of the ledger of the current frame: of its winners, of its losers
C11_WinningPips == SumPips(SelectSeq(Ledger(data), IsWin))

C11_LosingPips == SumPips(SelectSeq(Ledger(data), IsLoss))

\* C11 as claimed: for a non-empty ledger profit_factor is +infinity exactly
\* when the ledger has a winning trade and the losing pips sum to zero, and
\* is the finite |winning pips / losing pips| in every other case.
C11_InfiniteProfitFactor ==
  (SummaryReturned /\ ret.val.total_trades > 0) =>
    /\ ret.val.profit_factor = Inf <=>
         (Len(SelectSeq(Ledger(data), IsWin)) >= 1 /\ C11_LosingPips = 0)
    /\ ret.val.profit_factor # Inf =>
         /\ C11_LosingPips # 0
         /\ ret.val.profit_factor = Frac(Abs(C11_WinningPips), Abs(C11_LosingPips))

\* the non-zero signals of the frame all point the same way (none, one, or
\* several of one direction)
C12_NoDirectionChange ==
  \A i, j \in Index(data) :
    (data.signal[i] # 0 /\ data.signal[j] # 0) => data.signal[i] = data.signal[j]

\* C12: after a run whose signals never change direction the ledger is empty,
\* and get_performance_summary returns total_trades = 0 with the "no trades"
\* message instead of raising.
C12_EmptyLedgerSummary ==
  (HasRun /\ pc = "idle" /\ C12_NoDirectionChange) =>
    /\ ret.op = "get_entry_exit_pairs" => ret = Returned("get_entry_exit_pairs", << >>)
    /\ ret.op = "get_performance_summary" =>
         /\ ret.status = "ok"
         /\ ret.val.total_trades = 0
         /\ ret.val.message = "No complete trades found"

\* the summary of a run that gave two signals, both of one direction
C12_Witness ==
  /\ HasRun
  /\ SummaryReturned
  /\ C12_NoDirectionChange
  /\ Len(SignalRows(data)) >= 2
  /\ ret.val.total_trades = 0

(***************************************************************************)
(* Properties of a rising series (SpecTrend).                              *)
(***************************************************************************)
\* a run in immediate mode over a strictly increasing series of at least
\* long_period + 1 closes
C13_RisingImmediate ==
  /\ HasRun
  /\ parameters.min_candles_after_cross = 1
  /\ data.n >= parameters.long_period + 1
  /\ \A i \in 1 .. (data.n - 1) : data.close[i] > data.close[i - 1]

\* C13 as claimed: such a run yields exactly one buy signal and no sell signal.
C13_RisingOneBuy ==
  C13_RisingImmediate =>
    /\ Count(data.signal, 1) = 1
    /\ Count(data.signal, -1) = 0

\* C13 amended: such a run yields no buy signal and no sell signal; the short
\* average is above the long one wherever both are defined.
C13_RisingNoSignal ==
  C13_RisingImmediate =>
    /\ Count(data.signal, 1) = 0
    /\ Count(data.signal, -1) = 0
    /\ \A i \in Index(data) :
         i >= parameters.long_period - 1 => FGt(data.sma_short[i], data.sma_long[i])
    /\ ret.op = "get_summary" => ret.val.signals.total = 0

\* get_summary after such a run, with the difference defined on three rows or more
C13_Witness ==
  /\ C13_RisingImmediate
  /\ data.n >= parameters.long_period + 2
  /\ ret.op = "get_summary"
  /\ ret.val.signals.buy = 0

(***************************************************************************)
(* Properties of the flat-then-rising scenario (SpecRamp).                 *)
(***************************************************************************)
\* C14: for nineteen closes of 1 followed by 2, 3, ..., 40 and periods 5 and
\* 10, calculate_indicators marks one golden cross, at index 19 where the
\* short average first exceeds the long one, and no death cross.
C14_OneGoldenCrossAtRise ==
  (HasRun /\ last_loaded = Ascending(Ramp(19, 40))) =>
    /\ data.n = 58
    /\ {i \in Index(data) : data.crossover[i] = 1} = {19}
    /\ {i \in Index(data) : data.crossover[i] = -1} = {}
    /\ data.close[19] = 2
    /\ FGt(data.sma_short[19], data.sma_long[19])
    /\ \A i \in 0 .. 18 : ~FGt(data.sma_short[i], data.sma_long[i])

C14_Witness ==
  /\ HasRun
  /\ last_loaded = Ascending(Ramp(19, 40))
  /\ data.crossover[19] = 1
  /\ data.sma_short[19] = Frac(6, 5)
  /\ data.sma_long[19] = Frac(11, 10)

(***************************************************************************)
(* Properties of the life cycle, continued (Spec).                         *)
(***************************************************************************)
\* a table with the required columns and no rows is what is loaded
C15_EmptyLoaded == constructed /\ data.kind = "DataFrame" /\ data.n = 0

\* C15: with an empty table loaded, run returns without error and leaves no
\* signal, and get_performance_summary after that run reports total_trades = 0
\* without raising.
C15_EmptySequence ==
  C15_EmptyLoaded =>
    /\ ret.op = "run" =>
         /\ ret.status = "ok"
         /\ HasRun
         /\ signals = data
         /\ Count(signals.signal, 1) + Count(signals.signal, -1) = 0
    /\ HasRun =>
         /\ ret.op = "get_all_signals" => ret = Returned("get_all_signals", << >>)
         /\ ret.op = "get_entry_exit_pairs" => ret = Returned("get_entry_exit_pairs", << >>)
         /\ ret.op = "get_performance_summary" =>
              /\ ret.status = "ok"
              /\ ret.val.total_trades = 0

C15_Witness ==
  /\ C15_EmptyLoaded
  /\ HasRun
  /\ signals.kind = "DataFrame"
  /\ signals.n = 0
  /\ ret.op = "get_performance_summary"
  /\ ret.status = "ok"
  /\ ret.val.total_trades = 0

(***************************************************************************)
(* Properties of a repeated run (SpecRerun).                               *)
(***************************************************************************)
\* the frame of a single run on the loaded table
C16_OneRun ==
  generate_signals(
    calculate_indicators(FrameOf(RequiredColumns, last_loaded), parameters),
    parameters)

\* C16: a further run without reloading leaves the crossover, signal and
\* signal_strength series as the first run left them, and the ledger and the
\* summary asked for afterwards are those of a single run.
C16_RunIdempotent ==
  /\ [][ret'.op = "run" =>
         /\ ret'.status = "ok"
         /\ data'.crossover = data.crossover
         /\ data'.signal = data.signal
         /\ data'.signal_strength = data.signal_strength
         /\ data' = data
         /\ signals' = data']_vars
  /\ [](/\ data = C16_OneRun
        /\ ret.op = "get_entry_exit_pairs" => ret = get_entry_exit_pairs(C16_OneRun)
        /\ ret.op = "get_performance_summary" => ret = get_performance_summary(C16_OneRun))

\* a second run has returned, in confirmation mode, on a frame with signals
\* of both directions
C16_Witness ==
  /\ ret.op = "run"
  /\ ret.status = "ok"
  /\ parameters.min_candles_after_cross > 1
  /\ \E i, j \in Index(data) : data.signal[i] = 1 /\ data.signal[j] = -1

\* C17: __init__ raises for short_period >= long_period and for nothing else
\* among the periods, so every strategy object that exists has
\* short_period < long_period.
C17_PeriodsValidated ==
  /\ constructed => parameters.short_period < parameters.long_period
  /\ ret.op = "__init__" =>
       IF ret.status = "error"
       THEN /\ ret.exc = "ValueError"
            /\ ret.val[1] >= ret.val[2]
            /\ ~constructed
            /\ data = NoneFrame
            /\ signals = NoneFrame
       ELSE /\ constructed
            /\ parameters.short_period < parameters.long_period

\* the constructor has refused equal periods
C17_Witness ==
  /\ ret.op = "__init__"
  /\ ret.status = "error"
  /\ ret.val[1] = ret.val[2]
  /\ ~constructed

\* C18 as claimed: __init__ raises for min_candles_after_cross < 1, so no
\* strategy object holds such a value and run never returns with one.
C18_LagValidated ==
  /\ constructed => parameters.min_candles_after_cross >= 1
  /\ (ret.op = "run" /\ ret.status = "ok") => parameters.min_candles_after_cross >= 1

\* C19: a load_data that raises (a required column is missing) is a
\* ValueError that leaves self.data and self.signals as they were, and no
\* table that lacks a required column is ever taken as self.data.
C19_FailedLoadChangesNothing ==
  /\ [][(ret'.op = "load_data" /\ ret'.status = "error") =>
         /\ ret'.exc = "ValueError"
         /\ data' = data
         /\ signals' = signals
         /\ last_loaded' = last_loaded]_vars
  /\ [](data.kind # "None" => RequiredColumns \subseteq data.columns)

\* a load has been refused while a computed frame with a signal was held
C19_Witness ==
  /\ ret.op = "load_data"
  /\ ret.status = "error"
  /\ HasRun
  /\ signals = data
  /\ \E i \in Index(data) : data.signal[i] # 0

(***************************************************************************)
(* Properties of load_data (SpecLoad).                                     *)
(***************************************************************************)
\* how often the record r occurs among the rows of a frame
C20_Occurrences(df, r) == Cardinality({i \in 1 .. df.n : RowsOf(df)[i] = r})

\* C20: the sort of load_data turns the copied table, whatever its order,
\* into a permutation of its records with non-decreasing times, indexed
\* 0..n-1; a loaded frame is always in that order.
C20_LoadedSortedPermutation ==
  /\ [][(pc = "load" /\ pc' = "idle") =>
         /\ data'.n = data.n
         /\ DOMAIN data'.time = 0 .. (data.n - 1)
         /\ DOMAIN data'.close = 0 .. (data.n - 1)
         /\ \A i \in 1 .. data.n :
              C20_Occurrences(data', RowsOf(data)[i]) = C20_Occurrences(data, RowsOf(data)[i])
         /\ \A i, j \in Index(data') : i < j => data'.time[i] <= data'.time[j]
         /\ data'.columns = data.columns
         /\ ret' = Returned("load_data", "None")]_vars
  /\ []((pc = "idle" /\ data.kind # "None") =>
         \A i, j \in Index(data) : i < j => data.time[i] <= data.time[j])

\* a table of three candles handed over with its latest candle first and its
\* earliest last has been copied and is about to be sorted
C20_Witness ==
  /\ pc = "load"
  /\ data.n = 3
  /\ data.time[0] = 3
  /\ data.time[2] = 1
  /\ data.close[0] # data.close[2]

\* the rows of the copied table are in ascending order of time
C21_CopiedAscending ==
  \A i, j \in Index(data) : i < j => data.time[i] < data.time[j]

\* C21 as claimed: load_data on a table that is not sorted ascending by time
\* ends in a validation error.
C21_UnsortedRejected ==
  [][(pc = "load" /\ ~C21_CopiedAscending /\ pc' = "idle") =>
       (ret'.op = "load_data" /\ ret'.status = "error")]_vars


(***************************************************************************)
(* The caller keeps its own candle table: it hands it to load_data, and    *)
(* may change it between calls.  The time column of a table read from text *)
(* holds strings ("object"); load_data converts it on its copy.            *)
(***************************************************************************)
TimeDtypes == {"object", "datetime64"}

OwnerTables ==
  {[columns |-> RequiredColumns, rows |-> rows, time_dtype |-> d] :
     rows \in {Ascending(c) : c \in SeqsUpTo(LoadPrices, MaxPermLen)}
             \cup {Descending(c) : c \in SeqsUpTo(LoadPrices, MaxPermLen)},
     d \in TimeDtypes}

\* strategy.load_data(table) with the table the caller holds
LoadCaller == LoadData(caller)

\* the row of the caller's table that holds the newest candle
Newest(rows) == CHOOSE i \in 1 .. Len(rows) : \A j \in 1 .. Len(rows) : rows[j].time <= rows[i].time

\* the caller writes another close into the newest candle of its own table
CallerMutates(close) ==
  /\ pc = "idle"
  /\ Len(caller.rows) > 0
  /\ close # caller.rows[Newest(caller.rows)].close
  /\ caller' = [caller EXCEPT !.rows[Newest(caller.rows)].close = close]
  /\ UNCHANGED <<constructed, parameters, data, signals, last_loaded, ret, pc, cursor, locals>>

InitOwner ==
  /\ constructed = TRUE
  /\ parameters = Params(1, 2, 1)
  /\ data = NoneFrame
  /\ signals = NoneFrame
  /\ last_loaded = << >>
  /\ ret = Returned("__init__", "None")
  /\ caller \in OwnerTables
  /\ pc = "idle"
  /\ cursor = 0
  /\ LocalsAre(PairsStart)

NextOwner ==
  \/ LoadCaller
  \/ Run
  \/ GetAllSignals("None")
  \/ GetEntryExitPairs
  \/ GetPerformanceSummary
  \/ \E close \in LoadPrices : CallerMutates(close)

SpecOwner == InitOwner /\ [][NextOwner]_vars

\* C22: load_data and run never change the caller's table, and what the caller
\* does to its table after load_data changes no engine state and no later result:
\* run and the queries answer from the table as it was loaded.
C22_PrivateCopy ==
  /\ [][(data' # data \/ signals' # signals \/ ret' # ret) => caller' = caller]_vars
  /\ [][caller' # caller => UNCHANGED <<data, signals, ret>>]_vars
  /\ [](HasRun =>
         /\ data = FreshRun
         /\ ret.op = "run" => signals = FreshRun
         /\ ret.op = "get_all_signals" => ret = get_all_signals(FreshRun, "None")
         /\ ret.op = "get_entry_exit_pairs" => ret = get_entry_exit_pairs(FreshRun)
         /\ ret.op = "get_performance_summary" =>
              ret = get_performance_summary(FreshRun))

\* a run has answered with a signal from the loaded table while the caller's table,
\* still unsorted and unconverted, no longer holds the closes that were loaded
C22_Witness ==
  /\ HasRun
  /\ ret.op = "get_all_signals"
  /\ ret.status = "ok"
  /\ Len(ret.val) >= 1
  /\ caller.time_dtype = "object"
  /\ caller.columns = RequiredColumns
  /\ Len(caller.rows) >= 2
  /\ caller.rows[1].time > caller.rows[2].time
  /\ sort_values(caller.rows) # last_loaded


(***************************************************************************)
(* The consumer keeps the value the last call returned and may write into  *)
(* it.  run returns self.signals itself, which generate_signals returned   *)
(* as self.data: one frame under two names.  get_all_signals returns a     *)
(* .copy() and get_entry_exit_pairs a DataFrame built from a new list.     *)
(***************************************************************************)
SignalValues == {-1, 0, 1}

\* result.loc[0, 'signal'] = v on the frame returned by run
WriteThroughHandle(v) ==
  /\ signals.n > 0
  /\ v # signals.signal[0]
  /\ signals' = [signals EXCEPT !.signal[0] = v]
  /\ data' = signals'
  /\ UNCHANGED ret

\* the same write into the first row of a frame that get_all_signals returned
WriteToCopy(v) ==
  /\ Len(ret.val) > 0
  /\ v # ret.val[1].signal
  /\ ret' = [ret EXCEPT !.val[1].signal = v]
  /\ UNCHANGED <<data, signals>>

\* trades.loc[0, 'pips_profit'] = v on the ledger that get_entry_exit_pairs returned
WriteToLedger(v) ==
  /\ Len(ret.val) > 0
  /\ v # ret.val[1].pips_profit
  /\ ret' = [ret EXCEPT !.val[1].pips_profit = v]
  /\ UNCHANGED <<data, signals>>

ConsumerMutates(v) ==
  /\ pc = "idle"
  /\ ret.status = "ok"
  /\ \/ ret.op = "run" /\ WriteThroughHandle(v)
     \/ ret.op = "get_all_signals" /\ WriteToCopy(v)
     \/ ret.op = "get_entry_exit_pairs" /\ WriteToLedger(v)
  /\ UNCHANGED <<caller, constructed, parameters, last_loaded, pc, cursor, locals>>

InitConsumer ==
  /\ constructed = TRUE
  /\ parameters = Params(1, 2, 1)
  /\ \E closes \in SeqsUpTo(LoadPrices, MaxLoadLen) :
       /\ last_loaded = Ascending(closes)
       /\ data = Loaded([columns |-> RequiredColumns, rows |-> Ascending(closes)])
  /\ signals = NoneFrame
  /\ ret = Returned("load_data", "None")
  /\ caller = NoTable
  /\ pc = "idle"
  /\ cursor = 0
  /\ LocalsAre(PairsStart)

NextConsumer ==
  \/ Run
  \/ GetAllSignals("None")
  \/ GetEntryExitPairs
  \/ GetPerformanceSummary
  \/ \E v \in SignalValues : ConsumerMutates(v)

SpecConsumer == InitConsumer /\ [][NextConsumer]_vars

\* C23 as claimed: whatever a consumer wrote into the results it was handed,
\* get_all_signals, get_entry_exit_pairs and get_performance_summary return
\* what they return for the signals as the run computed them.
C23_NoSharedState ==
  HasRun =>
    /\ get_all_signals(signals, "None") = get_all_signals(FreshRun, "None")
    /\ get_entry_exit_pairs(data) = get_entry_exit_pairs(FreshRun)
    /\ get_performance_summary(data) = get_performance_summary(FreshRun)


\* what the four queries answer in the current state
C24_Answers ==
  {get_all_signals(signals, "None"), get_entry_exit_pairs(data),
   get_performance_summary(data), export_signals(signals)}

\* C24 as claimed: while no run has completed, get_all_signals,
\* get_entry_exit_pairs, get_performance_summary and export_signals either all
\* raise or all return (an empty result).
C24_NotRunReportedAlike ==
  (constructed /\ pc = "idle" /\ signals.kind = "None") =>
    \/ \A r \in C24_Answers : r.status = "error"
    \/ \A r \in C24_Answers : r.status = "ok"


(***************************************************************************)
(* TechnicalIndicators.sma called on its own, on the closes of the loaded  *)
(* table.                                                                  *)
(***************************************************************************)
Sma(period) ==
  /\ pc = "idle"
  /\ data.kind # "None"
  /\ ret' = Returned("sma", [period |-> period, series |-> sma(data.close, period)])
  /\ UNCHANGED <<caller, constructed, parameters, data, signals, last_loaded, pc, cursor, locals>>

InitSma ==
  /\ constructed = TRUE
  /\ parameters = Params(1, 2, 1)
  /\ \E closes \in SeqsUpTo(Prices, MaxLen) :
       /\ data = Loaded([columns |-> RequiredColumns, rows |-> Ascending(closes)])
       /\ last_loaded = Ascending(closes)
  /\ signals = NoneFrame
  /\ ret = Returned("load_data", "None")
  /\ caller = NoTable
  /\ pc = "idle"
  /\ cursor = 0
  /\ LocalsAre(PairsStart)

NextSma == \E period \in Periods : Sma(period)

SpecSma == InitSma /\ [][NextSma]_vars

\* closes[from] + ... + closes[from + count - 1]
RECURSIVE C25_Total(_, _, _)
C25_Total(closes, from, count) ==
  IF count = 0 THEN 0 ELSE closes[from] + C25_Total(closes, from + 1, count - 1)

\* C25: sma(closes, period)[i] is undefined for i < period-1 and is the
\* arithmetic mean of closes[i-period+1 .. i] for every i >= period-1.
C25_SmaIsWindowMean ==
  ret.op = "sma" =>
    LET period == ret.val.period
        series == ret.val.series
    IN /\ DOMAIN series = Index(data)
       /\ \A i \in Index(data) :
            IF i < period - 1 THEN series[i].nan
            ELSE /\ ~series[i].nan
                 /\ series[i].num * period =
                      series[i].den * C25_Total(data.close, i - period + 1, period)

\* sma with period 2 on three or more closes: undefined at row 0, and at row 2 the
\* mean of two closes that differ, with the close before the window different again
C25_Witness ==
  /\ ret.op = "sma"
  /\ ret.val.period = 2
  /\ data.n >= 3
  /\ ret.val.series[0].nan
  /\ ~ret.val.series[2].nan
  /\ data.close[1] # data.close[2]
  /\ data.close[0] # data.close[2]


(***************************************************************************)
(* The summary after a first run in immediate mode with periods 1 and 2,   *)
(* on tables long and wide enough for winning, losing and break-even       *)
(* trades in one ledger.                                                   *)
(***************************************************************************)
InitLedger ==
  /\ constructed = TRUE
  /\ parameters = Params(1, 2, 1)
  /\ \E closes \in SeqsUpTo(1 .. MaxTradePrice, MaxTradeLen) :
       /\ last_loaded = Ascending(closes)
       /\ data = generate_signals(
                   calculate_indicators(
                     Loaded([columns |-> RequiredColumns, rows |-> Ascending(closes)]),
                     parameters),
                   parameters)
  /\ signals = data
  /\ ret = Returned("run", "self.signals")
  /\ caller = NoTable
  /\ pc = "idle"
  /\ cursor = 0
  /\ LocalsAre(PairsStart)

NextLedger == GetPerformanceSummary

SpecLedger == InitLedger /\ [][NextLedger]_vars

\* the positions in a ledger of the trades that won, that lost
C26_Winners(ledger) == {i \in 1 .. Len(ledger) : ledger[i].pips_profit > 0}

C26_Losers(ledger) == {i \in 1 .. Len(ledger) : ledger[i].pips_profit < 0}

\* C26: for a non-empty ledger the summary's total_trades is the ledger length,
\* winning_trades and losing_trades count the trades with positive and with
\* negative pips, win_rate is winning_trades / total_trades x 100, and
\* winning_trades + losing_trades <= total_trades (zero-pip trades are in neither).
C26_SummaryCounts ==
  SummaryReturned =>
    LET ledger == Ledger(data) IN
    Len(ledger) > 0 =>
      /\ ret.val.total_trades = Len(ledger)
      /\ ret.val.winning_trades = Cardinality(C26_Winners(ledger))
      /\ ret.val.losing_trades = Cardinality(C26_Losers(ledger))
      /\ ~ret.val.win_rate.nan
      /\ ret.val.win_rate.num * ret.val.total_trades =
           ret.val.win_rate.den * ret.val.winning_trades * Percent
      /\ ret.val.winning_trades + ret.val.losing_trades <= ret.val.total_trades

\* the summary of a ledger that holds a winning trade and a zero-pip trade
C26_Witness ==
  /\ SummaryReturned
  /\ ret.val.total_trades >= 2
  /\ ret.val.winning_trades >= 1
  /\ ret.val.winning_trades + ret.val.losing_trades < ret.val.total_trades


(***************************************************************************)
(* The ledger after a first run, on the tables of SpecLedger.              *)
(***************************************************************************)
NextTrades == GetEntryExitPairs

SpecTrades == InitLedger /\ [][NextTrades]_vars

\* the signed price difference of a trade: exit - entry when long, entry - exit when short
C27_PriceDiff(t) ==
  IF t.position_type = "long" THEN t.exit_price - t.entry_price
  ELSE t.entry_price - t.exit_price

C27_Sign(n) == IF n > 0 THEN 1 ELSE IF n < 0 THEN -1 ELSE 0

\* C27: every trade of get_entry_exit_pairs is long or short, its prices are the
\* closes of its entry and exit candles, pips_profit is the signed price
\* difference x 10000, percent_profit is that difference / entry_price x 100,
\* and the two profits have the same sign.
C27_TradeProfits ==
  (pc = "idle" /\ ret.op = "get_entry_exit_pairs" /\ ret.status = "ok") =>
    \A k \in 1 .. Len(ret.val) :
      LET t == ret.val[k] IN
      /\ t.position_type \in {"long", "short"}
      /\ \E i, j \in Index(data) :
           /\ i < j
           /\ data.time[i] = t.entry_time /\ data.close[i] = t.entry_price
           /\ data.time[j] = t.exit_time /\ data.close[j] = t.exit_price
      /\ t.pips_profit = C27_PriceDiff(t) * PipScale
      /\ ~t.percent_profit.nan
      /\ t.percent_profit.den > 0
      /\ t.percent_profit.num * t.entry_price =
           t.percent_profit.den * C27_PriceDiff(t) * Percent
      /\ C27_Sign(t.pips_profit) = C27_Sign(t.percent_profit.num)

\* a ledger with a long trade and a short trade, one of them won and one lost
C27_Witness ==
  /\ pc = "idle"
  /\ ret.op = "get_entry_exit_pairs"
  /\ ret.status = "ok"
  /\ \E k, m \in 1 .. Len(ret.val) :
       /\ ret.val[k].position_type = "long"
       /\ ret.val[m].position_type = "short"
       /\ ret.val[k].pips_profit * ret.val[m].pips_profit < 0


(***************************************************************************)
(* Order of the crossovers (SpecPipeline).                                 *)
(***************************************************************************)
\* rows i < j carry crossovers of the same direction
C28_SameDirection(i, j) ==
  i < j /\ data.crossover[i] # 0 /\ data.crossover[j] = data.crossover[i]

\* the two averages are equal at row m: the difference is exactly zero
C28_Touch(m) == ~data.sma_diff[m].nan /\ data.sma_diff[m].num = 0

\* C28 as claimed: between any two crossovers of one direction there is a
\* crossover of the other direction.
C28_CrossoversAlternate ==
  HasRun =>
    \A i, j \in Index(data) :
      C28_SameDirection(i, j) =>
        \E m \in (i + 1) .. (j - 1) : data.crossover[m] = -data.crossover[i]

\* C28, amended: between any two crossovers of one direction there is a
\* crossover of the other direction or a candle where the two averages are
\* equal; in immediate mode the signals are the crossovers, and the
\* reconstructor's same-direction no-op is taken only for a signal that follows
\* such a candle.
C28_AlternateOrTouch ==
  /\ [](HasRun =>
         /\ \A i, j \in Index(data) :
              C28_SameDirection(i, j) =>
                \E m \in (i + 1) .. (j - 1) :
                  data.crossover[m] = -data.crossover[i] \/ C28_Touch(m)
         /\ parameters.min_candles_after_cross = 1 => data.signal = data.crossover)
  /\ [][(C3_RepeatNext /\ cursor' = cursor + 1
           /\ parameters.min_candles_after_cross = 1) =>
          \E m \in (SignalRows(data)[cursor] + 1) .. (SignalRows(data)[cursor + 1] - 1) :
            C28_Touch(m)]_vars

\* in immediate mode the loop has just passed over a signal that repeats the
\* direction of the signal before it, with no opposite crossover between the two
C28_Witness ==
  /\ HasRun
  /\ pc = "pairs"
  /\ parameters.min_candles_after_cross = 1
  /\ cursor >= 2
  /\ SignalAt(cursor) = SignalAt(cursor - 1)
  /\ Len(trades) = 0
  /\ \A m \in SignalRows(data)[cursor - 1] .. SignalRows(data)[cursor] :
       data.crossover[m] # -SignalAt(cursor)

=============================================================================
